---- MODULE Spec2Model ----
(***************************************************************************)
(* Model of pwndbg/elf.py: locating and decoding the ELF header of a       *)
(* loaded module (get_ehdr), and reconstructing its page map from the      *)
(* program headers (map / map_inner).                                      *)
(*                                                                         *)
(* Two specifications share the variables:                                 *)
(*   SpecEhdr  map(pointer): the backward scan of get_ehdr, the decoding   *)
(*             of the class byte and header, and the call of map_inner.    *)
(*   Spec      map_inner(ei_class, ehdr, objfile): the page map builder,   *)
(*             started on a decoded header (or on None).                   *)
(* Addresses are Python integers (unbounded), so no arithmetic wraps.      *)
(***************************************************************************)
EXTENDS Integers, Sequences, FiniteSets

VARIABLES
    pc,          \* position in map / get_ehdr / map_inner
    exception,   \* "" or the name of the exception that escaped to the caller
    pointer,     \* get_ehdr: the hint address
    magicAt,     \* target memory: distance in pages below page_align(pointer) of
                 \* the page holding the ELF magic, -1 when no page holds it
    magicLow,    \* target memory: distance of a second, lower page holding the
                 \* magic (greater than magicAt), -1 when there is none
    faultAt,     \* target memory: distance in pages of the unreadable page, -1 if none
    base,        \* get_ehdr: candidate base address
    data,        \* get_ehdr: the 4 bytes last read
    i,           \* get_ehdr: loop counter of range(1024)
    reads,       \* number of pwndbg.memory.read calls made by the scan
    ei_class,    \* get_ehdr: class byte (-1 = None)
    ehdr,        \* the decoded header handed to map_inner (None_ehdr = None)
    objfile,     \* map_inner: label argument
    idx,         \* iter_phdrs: index of the next program header
    phdrs,       \* the program headers read so far, in table order
    pages,       \* map_inner: the list `pages`
    execMarked,  \* addresses of pages that carried PF_X at some point of this build
    result,      \* value returned by map_inner
    memTable,    \* memoized map_inner: the program header table now in target memory
    cache,       \* memoized map_inner: the entries kept by reset_on_objfile
    lastMap,     \* memoized map_inner: what the last call returned, and what the
                 \* function itself returns on the memory of that moment
    alive,       \* memoized map_inner: the debuggee is running
    remote,      \* symbol.py: pwndbg.remote.is_remote()
    remote_files_dir, \* symbol.py: the global of that name (0 = None)
    remote_files,     \* symbol.py: the global of that name, as a set of entries
    debug_dirs,  \* symbol.py: the directories of GDB's debug-file-directory
    mkdtemps,    \* symbol.py: number of directories tempfile.mkdtemp() has made
    wrote,       \* symbol.py: the directories autofetch wrote a file into
    hop          \* hopper.py: the query under way and what the server received

vars == <<pc, exception, pointer, magicAt, magicLow, faultAt, base, data, i, reads,
          ei_class, ehdr, objfile, idx, phdrs, pages, execMarked, result,
          memTable, cache, lastMap, alive,
          remote, remote_files_dir, remote_files, debug_dirs, mkdtemps, wrote,
          hop>>

scanVars == <<pointer, magicAt, magicLow, faultAt, base, data, i, reads, ei_class>>
buildVars == <<objfile, idx, phdrs, pages, execMarked, result>>
cacheVars == <<memTable, cache, lastMap, alive>>
fetchVars == <<remote, remote_files_dir, remote_files, debug_dirs, mkdtemps, wrote>>
hopVars == <<hop>>
otherVars == <<cacheVars, fetchVars, hopVars>>

----------------------------------------------------------------------------
(* Constants of the program *)

PF_X == 1
PF_W == 2
PF_R == 4
ET_EXEC == 2
ET_DYN == 3
PAGE_SIZE == 4096
ScanLimit == 1024

Magic == "\\x7fELF"
NoMagic == "\\0\\0\\0\\0"

(* Bounds of the model *)
MaxPhdrs == 2
MaxDirs == 3

----------------------------------------------------------------------------
(* pwndbg.memory alignment helpers *)

page_align(address) == address - (address % PAGE_SIZE)

page_offset(address) == address % PAGE_SIZE

page_size_align(address) ==
    ((address + PAGE_SIZE - 1) \div PAGE_SIZE) * PAGE_SIZE

(* flags & bit, for a single-bit mask *)
HasFlag(flags, bit) == (flags \div bit) % 2 = 1

(* flags | bit *)
OrFlag(flags, bit) == IF HasFlag(flags, bit) THEN flags ELSE flags + bit

Page(start, size, flags, offset) ==
    [vaddr |-> start, memsz |-> size, flags |-> flags, offset |-> offset,
     objfile |-> ""]

PageEnd(p) == p.vaddr + p.memsz

None_ehdr == [valid |-> FALSE, address |-> 0, e_type |-> 0, e_phnum |-> 0]

----------------------------------------------------------------------------
(* Inputs *)

Pointers == {5242880, 5243171}            \* 0x500000, 0x500123
MagicDists == {-1, 0, 1, 2, 1023, 1024, 1025}
MagicLowDists == {-1, 3, 1024}
FaultDists == {-1, 0, 1, 2, 1024}
ClassBytes == {0, 1, 2, 3}
ETypes == {ET_EXEC, ET_DYN}

VAddrs == {0, 4660, 8192, 12288}          \* 0x0, 0x1234, 0x2000, 0x3000
MemSizes == {0, 4096, 8192}
FlagSet == {0, PF_R, PF_R + PF_X, PF_R + PF_W}
POffsets == {4660}

PhdrInputs ==
    [p_vaddr : VAddrs, p_memsz : MemSizes, p_flags : FlagSet,
     p_offset : POffsets, readable : {TRUE}]

UnreadablePhdr ==
    [p_vaddr |-> 0, p_memsz |-> 0, p_flags |-> 0, p_offset |-> 0,
     readable |-> FALSE]

EhdrInputs ==
    {[valid |-> TRUE, address |-> 4194304, e_type |-> ET_EXEC, e_phnum |-> n] :
        n \in 0..MaxPhdrs}
    \cup
    {[valid |-> TRUE, address |-> 1431650304, e_type |-> ET_DYN, e_phnum |-> n] :
        n \in 0..MaxPhdrs}

----------------------------------------------------------------------------
(* map_inner: raw page emission (lines 229-258) *)

(* pages.index(page_addr): Page equality compares vaddr; 0 when absent *)
RECURSIVE IndexFrom(_, _, _)
IndexFrom(ps, addr, k) ==
    IF k > Len(ps) THEN 0
    ELSE IF ps[k].vaddr = addr THEN k
    ELSE IndexFrom(ps, addr, k + 1)

PageIndex(ps, addr) == IndexFrom(ps, addr, 1)

(* line 254: if page.flags & PF_X: flags |= PF_X *)
KeepExec(pageFlags, flags) ==
    IF HasFlag(pageFlags, PF_X) THEN OrFlag(flags, PF_X) ELSE flags

(* lines 247-258: the loop over the pages of one header.  `flags` is the   *)
(* loop-carried local of the enclosing header: line 254 updates it, and    *)
(* the updated value is used for the following pages of the same header.   *)
RECURSIVE EmitPages(_, _, _, _, _, _)
EmitPages(ps, flags, page_addr, stop, vaddr, offset) ==
    IF page_addr >= stop THEN ps
    ELSE LET k == PageIndex(ps, page_addr) IN
         IF k # 0
         THEN LET f == KeepExec(ps[k].flags, flags) IN
              EmitPages([ps EXCEPT ![k].flags = f], f,
                        page_addr + PAGE_SIZE, stop, vaddr, offset)
         ELSE EmitPages(Append(ps, Page(page_addr, PAGE_SIZE, flags,
                                        offset + (page_addr - vaddr))),
                        flags, page_addr + PAGE_SIZE, stop, vaddr, offset)

(* lines 231-258: the body of `for phdr in iter_phdrs(ehdr)` *)
ProcessPhdr(ps, phdr) ==
    IF phdr.p_memsz = 0 THEN ps
    ELSE LET memsz  == page_size_align(phdr.p_memsz + page_offset(phdr.p_vaddr))
             vaddr  == page_align(phdr.p_vaddr)
             offset == page_align(phdr.p_offset)
         IN  EmitPages(ps, phdr.p_flags, vaddr, vaddr + memsz, vaddr, offset)

(* line 293-294 *)
check_pie(e) == e.e_type = ET_DYN

(* mutant of Relocate: the loop starts at the second page *)
Relocate_skipFirst(ps, b) ==
    [k \in 1..Len(ps) |-> IF k = 1 THEN ps[k] ELSE [ps[k] EXCEPT !.vaddr = @ + b]]

(* lines 262-264: page.vaddr += base for every page *)
Relocate(ps, b) == [k \in 1..Len(ps) |-> [ps[k] EXCEPT !.vaddr = @ + b]]

(* list.sort() / sorted() on Pages: ordered by vaddr, stable *)
RECURSIVE InsertPage(_, _)
InsertPage(sorted, p) ==
    IF sorted = <<>> THEN <<p>>
    ELSE IF p.vaddr < Head(sorted).vaddr THEN <<p>> \o sorted
    ELSE <<Head(sorted)>> \o InsertPage(Tail(sorted), p)

RECURSIVE SortPages(_)
SortPages(ps) ==
    IF ps = <<>> THEN <<>>
    ELSE InsertPage(SortPages(SubSeq(ps, 1, Len(ps) - 1)), ps[Len(ps)])

(* line 270: the merge condition *)
CanMerge(prev, page) ==
    /\ HasFlag(prev.flags, PF_W) = HasFlag(page.flags, PF_W)
    /\ prev.vaddr + prev.memsz = page.vaddr

(* pages.remove(page): drops the first element equal to page *)
RemoveAt(ps, k) == SubSeq(ps, 1, k - 1) \o SubSeq(ps, k + 1, Len(ps))

(* mutant of MergeLoop: the loop walks the list it removes from, so the   *)
(* element after a removed page is never examined                           *)
RECURSIVE MergeLoop_skipNext(_, _, _)
MergeLoop_skipNext(ps, prevIdx, todo) ==
    IF todo = <<>> THEN ps
    ELSE LET page == Head(todo)
             prev == ps[prevIdx]
         IN  IF CanMerge(prev, page)
             THEN MergeLoop_skipNext(
                    RemoveAt([ps EXCEPT ![prevIdx].memsz = @ + page.memsz],
                             PageIndex(ps, page.vaddr)),
                    prevIdx,
                    IF Len(todo) >= 2 THEN Tail(Tail(todo)) ELSE <<>>)
             ELSE MergeLoop_skipNext(ps, PageIndex(ps, page.vaddr), Tail(todo))

(* lines 269-274: `todo` is the snapshot list(pages[1:]); prev is followed  *)
(* by its position in ps.                                                   *)
RECURSIVE MergeLoop(_, _, _)
MergeLoop(ps, prevIdx, todo) ==
    IF todo = <<>> THEN ps
    ELSE LET page == Head(todo)
             prev == ps[prevIdx]
         IN  IF CanMerge(prev, page)
             THEN MergeLoop(
                    RemoveAt([ps EXCEPT ![prevIdx].memsz = @ + page.memsz],
                             PageIndex(ps, page.vaddr)),
                    prevIdx, Tail(todo))
             ELSE MergeLoop(ps, PageIndex(ps, page.vaddr), Tail(todo))

(* lines 267-274, on a non-empty list *)
Coalesce(ps) ==
    LET s == SortPages(ps) IN MergeLoop(s, 1, Tail(s))

(* mutant of GapPage: the gap page is one page long *)
GapPage_onePage(a, b) == Page(PageEnd(a), PAGE_SIZE, 0, b.offset)

(* line 284 *)
GapPage(a, b) == Page(PageEnd(a), b.vaddr - PageEnd(a), 0, b.offset)

(* lines 278-284 *)
RECURSIVE GapsFrom(_, _)
GapsFrom(ps, k) ==
    IF k >= Len(ps) THEN <<>>
    ELSE (IF PageEnd(ps[k]) # ps[k + 1].vaddr
          THEN <<GapPage(ps[k], ps[k + 1])>> ELSE <<>>)
         \o GapsFrom(ps, k + 1)

(* mutant of Gaps: a gap page between every pair, the test of line 283 dropped *)
Gaps_everyPair(ps) == [k \in 1..(Len(ps) - 1) |-> GapPage(ps[k], ps[k + 1])]

Gaps(ps) == GapsFrom(ps, 1)

(* lines 288-289 *)
Label(ps, name) == [k \in 1..Len(ps) |-> [ps[k] EXCEPT !.objfile = name]]

(* mutant of FillGaps: the final sorted() of line 291 dropped *)
FillGaps_unsorted(ps, name) == Label(ps \o Gaps(ps), name)

(* lines 276-291 *)
FillGaps(ps, name) == SortPages(Label(ps \o Gaps(ps), name))

(* lines 229-258 over a whole table *)
RECURSIVE RawPages(_)
RawPages(table) ==
    IF table = <<>> THEN <<>>
    ELSE ProcessPhdr(RawPages(SubSeq(table, 1, Len(table) - 1)), table[Len(table)])

(* lines 216-291: map_inner on a readable table that contributes pages *)
MapInnerPages(e, table, name) ==
    LET raw == RawPages(table)
        rel == IF check_pie(e) THEN Relocate(raw, e.address) ELSE raw
    IN  FillGaps(Coalesce(rel), name)

(* addresses (page granularity) covered by an executable page of ps *)
ExecAddrs(ps) ==
    UNION {{ps[k].vaddr + n * PAGE_SIZE : n \in 0..((ps[k].memsz \div PAGE_SIZE) - 1)} :
           k \in {j \in 1..Len(ps) : HasFlag(ps[j].flags, PF_X)}}

----------------------------------------------------------------------------
(* the state of the other modules, while they take no step *)

(* an address of the 32-bit target, as page number and offset in the page *)
Addr(page, off) == [page |-> page, off |-> off]

NoCall ==
    [fn |-> "", addr |-> Addr(0, 0), called |-> FALSE, sent |-> Addr(0, 0),
     exe |-> 0, seg |-> Addr(0, 0), enabled |-> FALSE, up |-> FALSE]
NoResult == [exc |-> "", pages |-> <<>>]

(* map_inner, get_ehdr and map take no step *)
ElfIdle ==
    /\ pc = "idle"
    /\ exception = ""
    /\ pointer = 0 /\ magicAt = -1 /\ magicLow = -1 /\ faultAt = -1
    /\ base = 0 /\ data = NoMagic /\ i = 0 /\ reads = 0 /\ ei_class = -1
    /\ ehdr = None_ehdr
    /\ objfile = ""
    /\ idx = 0
    /\ phdrs = <<>>
    /\ pages = <<>>
    /\ execMarked = {}
    /\ result = <<>>

elfVars == <<pc, exception, ehdr, scanVars, buildVars>>

OthersIdle ==
    /\ memTable = <<>> /\ cache = {} /\ alive = TRUE
    /\ lastMap = [called |-> FALSE, got |-> NoResult, fresh |-> NoResult]
    /\ remote = FALSE /\ remote_files_dir = 0 /\ remote_files = {}
    /\ debug_dirs = {} /\ mkdtemps = 0 /\ wrote = {}
    /\ hop = NoCall

----------------------------------------------------------------------------
(* map_inner as a state machine *)

(* lines 217-218 *)
MapInnerNoEhdr ==
    /\ pc = "map_inner"
    /\ ~ehdr.valid
    /\ result' = <<>>
    /\ pc' = "done"
    /\ UNCHANGED <<exception, ehdr, objfile, idx, phdrs, pages, execMarked>>
    /\ UNCHANGED scanVars
    /\ UNCHANGED otherVars

(* lines 220, 229 *)
MapInnerEnter ==
    /\ pc = "map_inner"
    /\ ehdr.valid
    /\ pages' = <<>>
    /\ idx' = 0
    /\ pc' = "iter_phdrs"
    /\ UNCHANGED <<exception, ehdr, objfile, phdrs, execMarked, result>>
    /\ UNCHANGED scanVars
    /\ UNCHANGED otherVars

(* lines 187-190 and 230-258: the next program header is read and its      *)
(* pages are emitted.  iter_phdrs first calls get_phdrs, which locates the  *)
(* header again from ehdr.address (found at the first read, the magic being *)
(* there) and decodes e_phnum; the headers are the successive table entries.*)
IterPhdr ==
    /\ pc = "iter_phdrs"
    /\ idx < ehdr.e_phnum
    /\ \E phdr \in PhdrInputs :
         /\ phdrs' = Append(phdrs, phdr)
         /\ pages' = ProcessPhdr(pages, phdr)
         /\ execMarked' = execMarked \cup ExecAddrs(ProcessPhdr(pages, phdr))
    /\ idx' = idx + 1
    /\ UNCHANGED <<pc, exception, ehdr, objfile, result>>
    /\ UNCHANGED scanVars
    /\ UNCHANGED otherVars

(* lines 189, 231: the read of the program header fails; nothing in        *)
(* iter_phdrs or map_inner catches gdb.MemoryError                          *)
IterPhdrFault ==
    /\ pc = "iter_phdrs"
    /\ idx < ehdr.e_phnum
    /\ phdrs' = Append(phdrs, UnreadablePhdr)
    /\ exception' = "MemoryError"
    /\ pc' = "raised"
    /\ UNCHANGED <<ehdr, objfile, idx, pages, execMarked, result>>
    /\ UNCHANGED scanVars
    /\ UNCHANGED otherVars

(* lines 260-264 *)
RelocateStep ==
    /\ pc = "iter_phdrs"
    /\ idx = ehdr.e_phnum
    /\ pages' = IF check_pie(ehdr) THEN Relocate(pages, ehdr.address) ELSE pages
    /\ execMarked' = IF check_pie(ehdr)
                     THEN {a + ehdr.address : a \in execMarked}
                     ELSE execMarked
    /\ pc' = "coalesce"
    /\ UNCHANGED <<exception, ehdr, objfile, idx, phdrs, result>>
    /\ UNCHANGED scanVars
    /\ UNCHANGED otherVars

(* lines 267-274 *)
CoalesceStep ==
    /\ pc = "coalesce"
    /\ pages # <<>>
    /\ pages' = Coalesce(pages)
    /\ pc' = "gaps"
    /\ UNCHANGED <<exception, ehdr, objfile, idx, phdrs, execMarked, result>>
    /\ UNCHANGED scanVars
    /\ UNCHANGED otherVars

(* line 268: prev = pages[0] on an empty list raises IndexError *)
CoalesceEmpty ==
    /\ pc = "coalesce"
    /\ pages = <<>>
    /\ exception' = "IndexError"
    /\ pc' = "raised"
    /\ UNCHANGED <<ehdr, objfile, idx, phdrs, pages, execMarked, result>>
    /\ UNCHANGED scanVars
    /\ UNCHANGED otherVars

(* lines 276-291 *)
FillGapsStep ==
    /\ pc = "gaps"
    /\ result' = FillGaps(pages, objfile)
    /\ pc' = "done"
    /\ UNCHANGED <<exception, ehdr, objfile, idx, phdrs, pages, execMarked>>
    /\ UNCHANGED scanVars
    /\ UNCHANGED otherVars

BuildNext ==
    \/ MapInnerNoEhdr
    \/ MapInnerEnter
    \/ IterPhdr
    \/ IterPhdrFault
    \/ RelocateStep
    \/ CoalesceStep
    \/ CoalesceEmpty
    \/ FillGapsStep

(* map_inner called with a decoded header, or with None *)
Init ==
    /\ pc = "map_inner"
    /\ exception = ""
    /\ pointer = 0 /\ magicAt = -1 /\ magicLow = -1 /\ faultAt = -1
    /\ base = 0 /\ data = NoMagic /\ i = 0 /\ reads = 0 /\ ei_class = -1
    /\ ehdr \in EhdrInputs \cup {None_ehdr}
    /\ objfile \in {"libc.so"}
    /\ idx = 0
    /\ phdrs = <<>>
    /\ pages = <<>>
    /\ execMarked = {}
    /\ result = <<>>
    /\ OthersIdle

Next == BuildNext

Spec == Init /\ [][Next]_vars

----------------------------------------------------------------------------
(* get_ehdr and map as a state machine *)

(* address of the page `d` pages below the page-aligned hint *)
PageBelow(d) == page_align(pointer) - d * PAGE_SIZE

(* pwndbg.memory.read(addr, 4) raises gdb.MemoryError on the unreadable page *)
Readable(addr) == faultAt = -1 \/ addr # PageBelow(faultAt)

(* the 4 bytes at a readable page address *)
Read4(addr) ==
    IF \/ (magicAt # -1 /\ addr = PageBelow(magicAt))
       \/ (magicLow # -1 /\ addr = PageBelow(magicLow))
    THEN Magic ELSE NoMagic

(* the scan is about to read: line 129, or line 137 in an iteration whose  *)
(* test of line 133 failed                                                 *)
AboutToRead ==
    \/ pc = "get_ehdr"
    \/ (pc = "scan" /\ i < ScanLimit /\ data # Magic)

(* the address of that read: line 126, or line 136 *)
NextBase == IF pc = "get_ehdr" THEN page_align(pointer) ELSE base - PAGE_SIZE

(* lines 126-129 and 136-137: a read that succeeds *)
ScanRead ==
    /\ AboutToRead
    /\ Readable(NextBase)
    /\ base' = NextBase
    /\ data' = Read4(NextBase)
    /\ reads' = reads + 1
    /\ i' = IF pc = "get_ehdr" THEN 0 ELSE i + 1
    /\ pc' = "scan"
    /\ UNCHANGED <<exception, pointer, magicAt, magicLow, faultAt, ei_class, ehdr>>
    /\ UNCHANGED buildVars
    /\ UNCHANGED otherVars

(* mutant of ScanReadFault: the fault is swallowed and the scan goes on *)
ScanReadFault_continue ==
    /\ AboutToRead
    /\ ~Readable(NextBase)
    /\ base' = NextBase
    /\ data' = NoMagic
    /\ reads' = reads + 1
    /\ i' = IF pc = "get_ehdr" THEN 0 ELSE i + 1
    /\ pc' = "scan"
    /\ UNCHANGED <<exception, pointer, magicAt, magicLow, faultAt, ei_class, ehdr>>
    /\ UNCHANGED buildVars
    /\ UNCHANGED otherVars

(* lines 142-143: a read raises gdb.MemoryError; get_ehdr returns None, None *)
ScanReadFault ==
    /\ AboutToRead
    /\ ~Readable(NextBase)
    /\ base' = NextBase
    /\ reads' = reads + 1
    /\ ei_class' = -1
    /\ ehdr' = None_ehdr
    /\ pc' = "returned"
    /\ UNCHANGED <<exception, pointer, magicAt, magicLow, faultAt, data, i>>
    /\ UNCHANGED buildVars
    /\ UNCHANGED otherVars

(* mutant of ScanBreak: the test comes after the decrement of line 136, so *)
(* the loop is left with base one page too low                             *)
ScanBreak_lowBase ==
    /\ pc = "scan"
    /\ i < ScanLimit
    /\ data = Magic
    /\ base' = base - PAGE_SIZE
    /\ pc' = "class"
    /\ UNCHANGED <<exception, ehdr, pointer, magicAt, magicLow, faultAt, data, i,
                   reads, ei_class>>
    /\ UNCHANGED buildVars
    /\ UNCHANGED otherVars

(* lines 133-134: the magic is found *)
ScanBreak ==
    /\ pc = "scan"
    /\ i < ScanLimit
    /\ data = Magic
    /\ pc' = "class"
    /\ UNCHANGED <<exception, ehdr>>
    /\ UNCHANGED scanVars
    /\ UNCHANGED buildVars
    /\ UNCHANGED otherVars

(* lines 139-141: range(1024) is exhausted *)
ScanExhausted ==
    /\ pc = "scan"
    /\ i = ScanLimit
    /\ ei_class' = -1
    /\ ehdr' = None_ehdr
    /\ pc' = "returned"
    /\ UNCHANGED <<exception, pointer, magicAt, magicLow, faultAt, base, data, i, reads>>
    /\ UNCHANGED buildVars
    /\ UNCHANGED otherVars

(* lines 146-149: the class byte is 1 or 2 *)
ReadClass ==
    /\ pc = "class"
    /\ \E c \in ClassBytes :
         /\ c \in {1, 2}
         /\ ei_class' = c
    /\ pc' = "ehdr"
    /\ UNCHANGED <<exception, pointer, magicAt, magicLow, faultAt, base, data, i, reads, ehdr>>
    /\ UNCHANGED buildVars
    /\ UNCHANGED otherVars

(* line 149: { 1: ..., 2: ... }[ei_class] raises KeyError for another byte *)
ReadClassUnknown ==
    /\ pc = "class"
    /\ \E c \in ClassBytes :
         /\ c \notin {1, 2}
         /\ ei_class' = c
    /\ exception' = "KeyError"
    /\ pc' = "raised"
    /\ UNCHANGED <<pointer, magicAt, magicLow, faultAt, base, data, i, reads, ehdr>>
    /\ UNCHANGED buildVars
    /\ UNCHANGED otherVars

(* line 146: the read of the class byte fails, outside the try block *)
ReadClassFault ==
    /\ pc = "class"
    /\ exception' = "MemoryError"
    /\ pc' = "raised"
    /\ UNCHANGED <<ehdr>>
    /\ UNCHANGED scanVars
    /\ UNCHANGED buildVars
    /\ UNCHANGED otherVars

(* lines 150-151: the header is decoded at base *)
ReadEhdr ==
    /\ pc = "ehdr"
    /\ \E t \in ETypes, n \in 0..MaxPhdrs :
         ehdr' = [valid |-> TRUE, address |-> base, e_type |-> t, e_phnum |-> n]
    /\ pc' = "returned"
    /\ UNCHANGED <<exception>>
    /\ UNCHANGED scanVars
    /\ UNCHANGED buildVars
    /\ UNCHANGED otherVars

(* line 150: the read of the header fails, outside the try block *)
ReadEhdrFault ==
    /\ pc = "ehdr"
    /\ exception' = "MemoryError"
    /\ pc' = "raised"
    /\ UNCHANGED <<ehdr>>
    /\ UNCHANGED scanVars
    /\ UNCHANGED buildVars
    /\ UNCHANGED otherVars

(* lines 212-213: map hands the result of get_ehdr to map_inner *)
MapCallInner ==
    /\ pc = "returned"
    /\ pc' = "map_inner"
    /\ UNCHANGED <<exception, ehdr>>
    /\ UNCHANGED scanVars
    /\ UNCHANGED buildVars
    /\ UNCHANGED otherVars

ScanNext ==
    \/ ScanRead
    \/ ScanReadFault
    \/ ScanBreak
    \/ ScanExhausted
    \/ ReadClass
    \/ ReadClassUnknown
    \/ ReadClassFault
    \/ ReadEhdr
    \/ ReadEhdrFault
    \/ MapCallInner
    \/ MapInnerNoEhdr

(* map(pointer) called on a target memory with at most one page holding    *)
(* the magic and at most one unreadable page                               *)
InitEhdr ==
    /\ pc = "get_ehdr"
    /\ exception = ""
    /\ pointer \in Pointers
    /\ magicAt \in MagicDists
    /\ magicLow \in MagicLowDists
    /\ (magicLow = -1 \/ (magicAt # -1 /\ magicLow > magicAt))
    /\ faultAt \in FaultDists
    /\ base = 0 /\ data = NoMagic /\ i = 0 /\ reads = 0 /\ ei_class = -1
    /\ ehdr = None_ehdr
    /\ objfile \in {"libc.so"}
    /\ idx = 0
    /\ phdrs = <<>>
    /\ pages = <<>>
    /\ execMarked = {}
    /\ result = <<>>
    /\ OthersIdle

SpecEhdr == InitEhdr /\ [][ScanNext]_vars

----------------------------------------------------------------------------
(* map through the memoized map_inner (elf.py lines 212-216), with the     *)
(* events that change the target and reset the cache                       *)

CachePhdrs ==
    {[p_vaddr |-> 0, p_memsz |-> 4096, p_flags |-> PF_R + PF_X,
      p_offset |-> 0, readable |-> TRUE],
     [p_vaddr |-> 8192, p_memsz |-> 4096, p_flags |-> PF_R + PF_W,
      p_offset |-> 8192, readable |-> TRUE],
     [p_vaddr |-> 8192, p_memsz |-> 4096, p_flags |-> PF_R,
      p_offset |-> 8192, readable |-> TRUE]}

(* the program header tables the module's memory can hold *)
CacheTables ==
    {<<>>} \cup {<<a>> : a \in CachePhdrs}
           \cup {<<a, b>> : a \in CachePhdrs, b \in CachePhdrs}

(* what map_inner itself does on a readable table: lines 216-291 *)
MapInnerResult(e, tbl, name) ==
    IF RawPages(tbl) = <<>>
    THEN [exc |-> "IndexError", pages |-> <<>>]
    ELSE [exc |-> "", pages |-> MapInnerPages(e, tbl, name)]

(* the header get_ehdr decodes from the module's memory *)
DecodedEhdr(tbl) ==
    [valid |-> TRUE, address |-> 4194304, e_type |-> ET_EXEC,
     e_phnum |-> Len(tbl)]

(* memoize: the entries of the cache for the arguments `key` *)
CacheHits(c, key) == {en \in c : en.key = key}

(* memoize.__call__: a cached value is returned as it is; otherwise the    *)
(* function runs, and its value is kept unless it raised                   *)
MemoGet(c, key, fresh) ==
    IF CacheHits(c, key) # {}
    THEN (CHOOSE en \in CacheHits(c, key) : TRUE).value
    ELSE fresh

MemoPut(c, key, fresh) ==
    IF CacheHits(c, key) = {} /\ fresh.exc = ""
    THEN c \cup {[key |-> key, value |-> fresh]}
    ELSE c

(* lines 212-216: map(pointer, objfile) on the running debuggee; get_ehdr  *)
(* is not memoized and reads the target, map_inner is memoized on its      *)
(* arguments                                                               *)
CachedMap ==
    /\ alive
    /\ LET e     == DecodedEhdr(memTable)
           key   == <<2, e, "libc.so">>
           fresh == MapInnerResult(e, memTable, "libc.so")
       IN  /\ lastMap' = [called |-> TRUE, got |-> MemoGet(cache, key, fresh),
                          fresh |-> fresh]
           /\ cache' = MemoPut(cache, key, fresh)
    /\ UNCHANGED <<memTable, alive>>
    /\ UNCHANGED <<elfVars, fetchVars, hopVars>>

(* the debuggee (or the user, through the debugger) writes the memory that *)
(* holds the program headers; no event of the host tells of it             *)
MemChange ==
    /\ alive
    /\ memTable' \in CacheTables \ {memTable}
    /\ UNCHANGED <<cache, lastMap, alive>>
    /\ UNCHANGED <<elfVars, fetchVars, hopVars>>

(* an object file is loaded: reset_on_objfile clears its caches *)
NewObjfileReset ==
    /\ cache' = {}
    /\ UNCHANGED <<memTable, lastMap, alive>>
    /\ UNCHANGED <<elfVars, fetchVars, hopVars>>

(* the process exits: the caches of reset_on_objfile are left alone (those *)
(* of reset_on_start, such as exe of lines 51-58, are cleared on start)    *)
ProcExit ==
    /\ alive
    /\ alive' = FALSE
    /\ UNCHANGED <<memTable, cache, lastMap>>
    /\ UNCHANGED <<elfVars, fetchVars, hopVars>>

(* the program is run again: a new image is in memory *)
ProcStart ==
    /\ ~alive
    /\ alive' = TRUE
    /\ memTable' \in CacheTables
    /\ UNCHANGED <<cache, lastMap>>
    /\ UNCHANGED <<elfVars, fetchVars, hopVars>>

CacheNext ==
    \/ CachedMap
    \/ MemChange
    \/ NewObjfileReset
    \/ ProcExit
    \/ ProcStart

InitCache ==
    /\ ElfIdle
    /\ memTable \in CacheTables
    /\ cache = {}
    /\ lastMap = [called |-> FALSE, got |-> NoResult, fresh |-> NoResult]
    /\ alive = TRUE
    /\ remote = FALSE /\ remote_files_dir = 0 /\ remote_files = {}
    /\ debug_dirs = {} /\ mkdtemps = 0 /\ wrote = {}
    /\ hop = NoCall

SpecCache == InitCache /\ [][CacheNext]_vars

----------------------------------------------------------------------------
(* symbol.py: fetching the files of a remote target (lines 42-96) *)

(* the objfile names pwndbg.vmmap.get() can report *)
Mappings == {"/bin/app", "/lib/libc.so", "/lib/ld.so", "[stack]", ""}

(* objfile.startswith('/') *)
StartsWithSlash(o) == o \in {"/bin/app", "/lib/libc.so", "/lib/ld.so"}

(* the keys of the dict remote_files *)
Fetched(files) == {en.objfile : en \in files}

(* lines 79-85: the mappings that are downloaded *)
ToFetch(maps, files) ==
    {o \in maps : StartsWithSlash(o) /\ o # "" /\ o \notin Fetched(files)}

(* lines 45-50: add_directory(d): d is appended to the current path, or    *)
(* becomes the path when the current one is empty                          *)
add_directory(dirs, d) == IF dirs # {} THEN dirs \cup {d} ELSE {d}

(* the debug-file-directory before pwndbg touches it: empty, or the        *)
(* system's directory (-1)                                                 *)
SearchPaths == {{}, {-1}}

(* lines 55-60: reset_remote_files, on the exit event *)
ResetRemoteFiles ==
    /\ mkdtemps < MaxDirs
    /\ remote_files' = {}
    /\ mkdtemps' = mkdtemps + 1
    /\ remote_files_dir' = mkdtemps + 1
    /\ UNCHANGED <<remote, debug_dirs, wrote>>
    /\ UNCHANGED <<elfVars, cacheVars, hopVars>>

(* lines 67-68: autofetch, on the new-objfile event, on a local target *)
AutofetchLocal ==
    /\ ~remote
    /\ UNCHANGED fetchVars
    /\ UNCHANGED <<elfVars, cacheVars, hopVars>>

(* lines 70-96: autofetch, on the new-objfile event, on a remote target *)
Autofetch ==
    /\ remote
    /\ \E maps \in SUBSET Mappings :
         LET made == remote_files_dir = 0
             dir  == IF made THEN mkdtemps + 1 ELSE remote_files_dir
             new  == ToFetch(maps, remote_files)
         IN  /\ remote_files_dir' = dir
             /\ mkdtemps' = IF made THEN mkdtemps + 1 ELSE mkdtemps
             /\ debug_dirs' = IF made THEN add_directory(debug_dirs, dir)
                              ELSE debug_dirs
             /\ wrote' = IF new # {} THEN wrote \cup {dir} ELSE wrote
             /\ remote_files' =
                  remote_files \cup {[objfile |-> o, dir |-> dir] : o \in new}
    /\ UNCHANGED remote
    /\ UNCHANGED <<elfVars, cacheVars, hopVars>>

FetchNext ==
    \/ ResetRemoteFiles
    \/ AutofetchLocal
    \/ Autofetch

(* lines 52-53: the module is loaded *)
InitFetch ==
    /\ ElfIdle
    /\ memTable = <<>> /\ cache = {} /\ alive = TRUE
    /\ lastMap = [called |-> FALSE, got |-> NoResult, fresh |-> NoResult]
    /\ remote \in BOOLEAN
    /\ remote_files_dir = 0
    /\ remote_files = {}
    /\ debug_dirs \in SearchPaths
    /\ mkdtemps = 0
    /\ wrote = {}
    /\ hop = NoCall

SpecFetch == InitFetch /\ [][FetchNext]_vars

----------------------------------------------------------------------------
(* hopper.py: queries that take a local address (lines 49-252).  Addresses *)
(* are kept as page number and in-page offset: both bases are page-aligned *)
(* (exe().address is the base found by get_ehdr, base() masks with ~0xfff),*)
(* so `& ptrmask` of a 32-bit target is arithmetic modulo 2^20 on the page *)
(* number and leaves the offset alone.                                     *)

AddrPages == 1048576                      \* (ptrmask + 1) / PAGE_SIZE

(* lines 87-92: base() *)
HopperBase ==
    IF hop.seg.page < 256 THEN 0 ELSE hop.seg.page     \* 256 pages = 0x100000

(* lines 79-81: l2r(addr) *)
l2r(addr) ==
    Addr((addr.page - hop.exe + HopperBase) % AddrPages, addr.off)

(* lines 63-67: the wrapper of takes_address hands l2r(address) on *)
takes_address(address) == l2r(address)

(* the queries decorated with takes_address whose body hands addr to the   *)
(* server as it is                                                         *)
PlainQueries ==
    {"Name", "GetFuncOffset", "GetType", "Jump", "Anterior", "SetColor",
     "PrevHead", "NextHead", "GetFunctionName", "GetFlags"}

(* lines 53-61: withHopper lets the call through *)
HopperReady == hop.enabled /\ hop.up

(* lines 94-98: Comment: the wrapper translates, and line 97 translates    *)
(* what it is given once more                                              *)
CallComment ==
    /\ HopperReady
    /\ ~hop.called
    /\ hop' = [hop EXCEPT !.fn = "Comment", !.called = TRUE,
                          !.sent = l2r(takes_address(hop.addr))]
    /\ UNCHANGED <<elfVars, cacheVars, fetchVars>>

(* lines 100-128, 130-142, 187-190, 216-240: the other queries *)
CallQuery ==
    /\ HopperReady
    /\ ~hop.called
    /\ \E fn \in PlainQueries :
         hop' = [hop EXCEPT !.fn = fn, !.called = TRUE,
                            !.sent = takes_address(hop.addr)]
    /\ UNCHANGED <<elfVars, cacheVars, fetchVars>>

(* lines 56-61: Hopper is disabled or unreachable: None, and no query *)
CallRefused ==
    /\ ~HopperReady
    /\ hop.fn = ""
    /\ \E fn \in PlainQueries \cup {"Comment"} : hop' = [hop EXCEPT !.fn = fn]
    /\ UNCHANGED <<elfVars, cacheVars, fetchVars>>

HopperNext ==
    \/ CallComment
    \/ CallQuery
    \/ CallRefused

HopAddrs == {Addr(1024, 0), Addr(1025, 291), Addr(16, 8)}
ExePages == {1024, 349524}                \* 0x400000, 0x55554000
SegPages == {0, 256, 1024}                \* NextSeg_(0) at 0x0.., 0x100000.., 0x400000..

InitHopper ==
    /\ ElfIdle
    /\ memTable = <<>> /\ cache = {} /\ alive = TRUE
    /\ lastMap = [called |-> FALSE, got |-> NoResult, fresh |-> NoResult]
    /\ remote = FALSE /\ remote_files_dir = 0 /\ remote_files = {}
    /\ debug_dirs = {} /\ mkdtemps = 0 /\ wrote = {}
    /\ \E a \in HopAddrs, e \in ExePages, g \in SegPages, on \in BOOLEAN,
          u \in BOOLEAN :
         hop = [fn |-> "", addr |-> a, called |-> FALSE, sent |-> Addr(0, 0),
                exe |-> e, seg |-> Addr(g, 52), enabled |-> on, up |-> u]

SpecHopper == InitHopper /\ [][HopperNext]_vars

----------------------------------------------------------------------------
(* Properties of the page map builder, checked under Spec *)

Returned == pc = "done" /\ ehdr.valid

Indices(ps) == 1..Len(ps)

MinOf(S) == CHOOSE x \in S : \A y \in S : x <= y
MaxOf(S) == CHOOSE x \in S : \A y \in S : x >= y

(* the headers that contribute pages, and their page-aligned ranges *)
Loaded == {k \in Indices(phdrs) : phdrs[k].readable /\ phdrs[k].p_memsz # 0}
SegStart(ph) == ph.p_vaddr - (ph.p_vaddr % PAGE_SIZE)
SegEnd(ph) ==
    LET sz == ph.p_memsz + (ph.p_vaddr % PAGE_SIZE)
    IN  SegStart(ph) + (IF sz % PAGE_SIZE = 0 THEN sz
                        ELSE sz + PAGE_SIZE - (sz % PAGE_SIZE))
LoadBias == IF ehdr.e_type = ET_DYN THEN ehdr.address ELSE 0

RECURSIVE SumSizes(_)
SumSizes(ps) == IF ps = <<>> THEN 0 ELSE Head(ps).memsz + SumSizes(Tail(ps))

(* C1: for a non-empty table of program headers, the page sequence that    *)
(* map_inner returns is sorted by strictly increasing base address, its    *)
(* pages are pairwise non-overlapping, and every base and size is a        *)
(* multiple of the page size.                                              *)
C1_SortedDisjointAligned ==
    (Returned /\ Len(phdrs) >= 1) =>
        /\ \A k \in Indices(result) :
             /\ result[k].vaddr % PAGE_SIZE = 0
             /\ result[k].memsz % PAGE_SIZE = 0
        /\ \A j, k \in Indices(result) :
             j < k => /\ result[j].vaddr < result[k].vaddr
                      /\ PageEnd(result[j]) <= result[k].vaddr

(* two headers, three or more output pages, one of them a gap page *)
C1_Witness ==
    /\ Returned
    /\ Len(phdrs) = 2
    /\ Len(result) >= 3
    /\ Len(result) > Len(pages)

C3_ExecBitKept ==
    Returned =>
        \A a \in execMarked :
            \E k \in Indices(result) :
                /\ result[k].vaddr <= a
                /\ a < PageEnd(result[k])
                /\ HasFlag(result[k].flags, PF_X)

(* C7: a decoded header whose table contributes no pages (zero entries, or *)
(* every entry of memory size zero) makes map_inner return an empty list   *)
(* rather than fail.                                                       *)
C7_NoPagesEmptyList ==
    (/\ ehdr.valid
     /\ pc \in {"done", "raised"}
     /\ Len(phdrs) = ehdr.e_phnum
     /\ \A k \in Indices(phdrs) : phdrs[k].readable /\ phdrs[k].p_memsz = 0)
    => (pc = "done" /\ exception = "" /\ result = <<>>)

(* the same table built as file type EXEC *)
AsExec(e) == [e EXCEPT !.e_type = ET_EXEC]
Shifted(ps, b) == [k \in Indices(ps) |-> [ps[k] EXCEPT !.vaddr = @ + b]]

(* C8: the page list built for file type DYN with header base B equals the *)
(* page list built for the same table as file type EXEC with every page's  *)
(* address (backed and gap pages alike) increased by B, and sizes, flags   *)
(* and offsets unchanged.                                                  *)
C8_DynIsExecPlusBase ==
    (Returned /\ ehdr.e_type = ET_DYN) =>
        result = Shifted(MapInnerPages(AsExec(ehdr), phdrs, objfile), ehdr.address)

(* a DYN build whose output holds backed pages and a gap page *)
C8_Witness ==
    /\ Returned
    /\ ehdr.e_type = ET_DYN
    /\ Len(result) >= 3
    /\ Len(result) > Len(pages)
    /\ result[1].vaddr >= ehdr.address

(* pages of ps whose base is addr *)
At(ps, addr) == {k \in Indices(ps) : ps[k].vaddr = addr}

GapExample ==
    <<[p_vaddr |-> 0, p_memsz |-> 4096, p_flags |-> PF_R + PF_X,
       p_offset |-> 4660, readable |-> TRUE],
      [p_vaddr |-> 12288, p_memsz |-> 4096, p_flags |-> PF_R + PF_X,
       p_offset |-> 4660, readable |-> TRUE]>>

C10_UnreadableSkipped ==
    (\E k \in Indices(phdrs) : ~phdrs[k].readable) =>
        (exception = "" /\ pc # "raised")

(* C12: coalescing is idempotent: applying the coalescing step to the     *)
(* output of the coalescing step yields the same sequence.                 *)
C12_CoalesceIdempotent ==
    (ehdr.valid /\ pc \in {"gaps", "done"}) => Coalesce(pages) = pages

(* a coalesced list of two or more pages, at least one of them merged *)
C12_Witness ==
    /\ ehdr.valid
    /\ pc = "gaps"
    /\ Len(pages) >= 2
    /\ Len(pages) < Len(RawPages(phdrs))

(* the headers that cover the page at (unrelocated) address a *)
Covering(a) == {k \in Loaded : SegStart(phdrs[k]) <= a /\ a < SegEnd(phdrs[k])}

(* C13: after raw page emission and overlap handling, before relocation    *)
(* and coalescing, every page covered by a header of nonzero memory size   *)
(* has the read and write bits of the last header in table order covering  *)
(* it, and has the execute bit if and only if some header covering it has  *)
(* the execute flag.                                                       *)
C13_FlagsFromHeaders ==
    (ehdr.valid /\ pc = "iter_phdrs") =>
        \A k \in Indices(pages) :
            LET cov  == Covering(pages[k].vaddr)
                last == phdrs[MaxOf(cov)]
            IN  /\ cov # {}
                /\ HasFlag(pages[k].flags, PF_R) = HasFlag(last.p_flags, PF_R)
                /\ HasFlag(pages[k].flags, PF_W) = HasFlag(last.p_flags, PF_W)
                /\ HasFlag(pages[k].flags, PF_X) =
                     (\E j \in cov : HasFlag(phdrs[j].p_flags, PF_X))

----------------------------------------------------------------------------
(* Properties of the header locator, checked under SpecEhdr *)

(* get_ehdr is over: it returned, or an exception left it *)
GetEhdrOver == pc \in {"returned", "raised", "map_inner", "done"}

(* no page from the hint's page down to 1024 pages below it holds the magic *)
NoMagicInBound == magicAt = -1 \/ magicAt > ScanLimit

(* C4: scanning from a hint with no ELF magic within 1024 pages below it   *)
(* returns NotFound (None, None) and performs exactly 1024 memory reads.   *)
C4_Exactly1024Reads ==
    (GetEhdrOver /\ NoMagicInBound /\ faultAt = -1) =>
        (~ehdr.valid /\ exception = "" /\ reads = ScanLimit)

(* the unreadable page is reached before any page holding the magic *)
FaultFirst ==
    /\ faultAt # -1
    /\ faultAt <= ScanLimit
    /\ (magicAt = -1 \/ faultAt <= magicAt)

(* C5 as stated: a failed read is treated as "no header here" and the scan *)
(* goes on, so a magic on a lower readable page within the bound is found. *)
C5_FaultSkipped ==
    (GetEhdrOver /\ FaultFirst /\ magicAt > faultAt /\ magicAt < ScanLimit) =>
        (base = PageBelow(magicAt) /\ reads = magicAt + 1)

(* C5 amended: when the 4-byte read at a candidate page fails, the scan    *)
(* stops there: get_ehdr returns NotFound (None, None) without reading any *)
(* lower page, and no exception escapes.                                   *)
C5_FaultStopsScan ==
    (GetEhdrOver /\ FaultFirst) =>
        /\ ~ehdr.valid
        /\ ei_class = -1
        /\ exception = ""
        /\ base = PageBelow(faultAt)
        /\ reads = faultAt + 1

(* the scan met the unreadable page above a readable page holding the magic *)
C5_Witness ==
    /\ pc = "returned"
    /\ FaultFirst
    /\ faultAt > 0
    /\ magicAt > faultAt
    /\ magicAt < ScanLimit
    /\ ~ehdr.valid

(* C6: when the magic is found but the class byte is neither 1 nor 2, or   *)
(* the read of the class byte or of the header fails, get_ehdr returns     *)
(* NotFound and map returns an empty page list; no exception escapes.      *)
C6_BadClassNotFound ==
    (data = Magic /\ pc \in {"raised", "done"}) =>
        (exception = "" /\ ~ehdr.valid /\ result = <<>>)

(* the scan is over and left the loop by break, or get_ehdr is over *)
ScanOver == pc \in {"class", "ehdr", "returned", "raised", "map_inner", "done"}

(* C14 as stated: with all reads succeeding, the header is located at the  *)
(* highest page holding the magic for every distance of 0 to 1024 pages    *)
(* below the page-aligned hint.                                            *)
C14_FoundUpTo1024 ==
    (pc = "returned" /\ faultAt = -1 /\ magicAt \in 0..ScanLimit) =>
        (ehdr.valid /\ ehdr.address = PageBelow(magicAt))

(* C14 amended: with all reads succeeding, get_ehdr locates the header at  *)
(* the highest page-aligned address at or below the hint that holds the    *)
(* magic for every distance of 0 to 1023 pages below the page-aligned      *)
(* hint; the page 1024 pages below is read but never compared, and a magic *)
(* there is not found.  It never returns a base above the hint or a base   *)
(* whose first 4 bytes are not the magic.                                  *)
C14_FoundUpTo1023 ==
    /\ (ScanOver /\ faultAt = -1 /\ magicAt \in 0..(ScanLimit - 1)) =>
         /\ base = PageBelow(magicAt)
         /\ reads = magicAt + 1
         /\ pc \in {"returned", "map_inner"} =>
              (ehdr.valid /\ ehdr.address = PageBelow(magicAt))
    /\ (GetEhdrOver /\ faultAt = -1 /\ magicAt = ScanLimit) =>
         (~ehdr.valid /\ exception = "")
    /\ ehdr.valid =>
         /\ ehdr.address <= pointer
         /\ Read4(ehdr.address) = Magic

(* a header found 1023 pages below the hint, above a second magic *)
C14_Witness ==
    /\ pc = "returned"
    /\ faultAt = -1
    /\ magicAt = ScanLimit - 1
    /\ magicLow = ScanLimit
    /\ ehdr.valid
    /\ ehdr.address = PageBelow(magicAt)

----------------------------------------------------------------------------
(* Properties of the memoized map_inner, checked under SpecCache *)

(* C11: for any interleaving of map calls, target-memory changes and       *)
(* object-file-load / process-exit events, the page list returned through  *)
(* the memoized map_inner equals the page list an uncached recomputation   *)
(* would return at that moment.                                            *)
C11_CacheTransparent ==
    lastMap.called => lastMap.got = lastMap.fresh

----------------------------------------------------------------------------
(* Properties of the remote file fetcher, checked under SpecFetch *)

(* C15: across any sequence of new-objfile and process-exit events on a    *)
(* remote target, whenever autofetch writes a downloaded file into         *)
(* remote_files_dir, that directory has been added to GDB's                *)
(* debug-file-directory search path.                                       *)
C15_WrittenDirSearched ==
    remote => wrote \subseteq debug_dirs

----------------------------------------------------------------------------
(* Properties of the Hopper queries, checked under SpecHopper *)

(* C16: every Hopper query that takes a local address passes the server    *)
(* exactly l2r(a) = (a - exe_base + hopper_base) & ptrmask for the local   *)
(* address a: the translation is applied exactly once per call.            *)
C16_TranslatedOnce ==
    hop.called => hop.sent = l2r(hop.addr)

====
